---- MODULE Spec2Model ----
(***************************************************************************)
(* Model of SileroVADSegmenter (segment/silero_vad.py): the recursive      *)
(* probability-driven chunking pdac with its primitives trim and           *)
(* split_and_trim, the conversion done by get_speech_timestamps, and the   *)
(* chunk merging loop of segment_long_input.                               *)
(*                                                                         *)
(* Probabilities and the threshold are integers on a grid of tenths        *)
(* (0.9 is 9): the code only compares them (>= threshold, argsort).        *)
(* max_segment_length and min_segment_length are integers: durations are   *)
(* integers, and for a real bound m the tests  d < m  and  d > m  agree    *)
(* with the tests against ceil(m) and floor(m).                            *)
(* Python indices are 0-based, sequences here are 1-based: a Python index  *)
(* i is kept as the number i and read as probs[i + 1].                     *)
(***************************************************************************)
EXTENDS Integers, Sequences, FiniteSets

\* ---------------------------------------------------------------- bounds
MaxLen == 4
MaxSegLen == 3
MaxMinLen == 1
MaxWindow == 2
MaxStart == 2
MaxTrims == 2
MaxIntervals == 3
MaxCoord == 4
MaxChunk == 4
MaxPause == 2

\* probabilities and thresholds drawn, in tenths: 0.5 as a probability meets
\* the threshold 0.5 exactly, 0.1 is below both thresholds, 0.9 meets both
ProbGrid == {1, 5, 9}
Thresholds == {5, 9}

\* the scenario of the specification's section 8.6 (longer than MaxLen)
ScenarioProbs == <<9, 9, 1, 1, 9, 9>>

VARIABLES
    probs,                \* pdac argument: the probability sequence
    threshold,            \* pdac / trim argument
    max_segment_length,   \* pdac argument
    min_segment_length,   \* pdac argument
    window_size_samples,  \* pdac argument
    segments,             \* pdac local: the output list
    stack,                \* the active calls of recursive_split, innermost last
    pc,                   \* position of the driver
    speech_timestamps,    \* result of get_speech_timestamps / input of the merge loop
    max_segment_length_samples,  \* segment_long_input local
    pause_length_samples,        \* segment_long_input local
    merged,               \* segment_long_input local `segments`
    current_segment,      \* segment_long_input local: <<>> or <<start, end>>
    next_idx,             \* how many items the for loop has consumed
    trim_sgm,             \* a Segment handed to trim on its own
    trimmed               \* trim(trim_sgm), trim(trim(trim_sgm)), ...

mergeVars == <<max_segment_length_samples, pause_length_samples, merged,
               current_segment, next_idx>>
trimVars == <<trim_sgm, trimmed>>

vars == <<probs, threshold, max_segment_length, min_segment_length,
          window_size_samples, segments, stack, pc, speech_timestamps,
          mergeVars, trimVars>>

params == <<probs, threshold, max_segment_length, min_segment_length,
            window_size_samples>>

\* ------------------------------------------------------------ class Segment
Segment(start, end, p) ==
    [start |-> start, end |-> end, probs |-> p, duration |-> end - start]

\* ------------------------------------------------------------------- trim
\* np.where(sgm.probs >= threshold)[0], as 1-based positions
included_indices(sgm, thr) ==
    {k \in 1..Len(sgm.probs) : sgm.probs[k] >= thr}

SetMin(S) == CHOOSE x \in S : \A y \in S : x <= y
SetMax(S) == CHOOSE x \in S : \A y \in S : x >= y

\* trim with `j = included_indices[-1]`, the + 1 forgotten
trim_lastExcluded(sgm, thr) ==
    LET inc == included_indices(sgm, thr)
    IN  IF inc = {}
        THEN Segment(sgm.start, sgm.start, <<>>)
        ELSE LET i == SetMin(inc) - 1
                 j == SetMax(inc) - 1
             IN  Segment(sgm.start + i, sgm.start + j, SubSeq(sgm.probs, i + 1, j))

trim(sgm, thr) ==
    LET inc == included_indices(sgm, thr)
    IN  IF inc = {}
        THEN Segment(sgm.start, sgm.start, <<>>)
        ELSE LET i == SetMin(inc) - 1
                 j == SetMax(inc)
             IN  Segment(sgm.start + i, sgm.start + j, SubSeq(sgm.probs, i + 1, j))

\* --------------------------------------------------------- split_and_trim
\* split_and_trim with the right half anchored at the parent's start
split_and_trim_unshifted(sgm, split_idx, thr) ==
    LET probs_a == SubSeq(sgm.probs, 1, split_idx)
        sgm_a   == Segment(sgm.start, sgm.start + Len(probs_a), probs_a)
        probs_b == SubSeq(sgm.probs, split_idx + 2, Len(sgm.probs))
        sgm_b   == Segment(sgm.start, sgm.end, probs_b)
    IN  <<trim(sgm_a, thr), trim(sgm_b, thr)>>

\* split_and_trim with the fence post kept in the right half (probs[split_idx:])
split_and_trim_keepFence(sgm, split_idx, thr) ==
    LET probs_a == SubSeq(sgm.probs, 1, split_idx)
        sgm_a   == Segment(sgm.start, sgm.start + Len(probs_a), probs_a)
        probs_b == SubSeq(sgm.probs, split_idx + 1, Len(sgm.probs))
        sgm_b   == Segment(sgm_a.end, sgm.end, probs_b)
    IN  <<trim(sgm_a, thr), trim(sgm_b, thr)>>

split_and_trim(sgm, split_idx, thr) ==
    LET probs_a == SubSeq(sgm.probs, 1, split_idx)
        sgm_a   == Segment(sgm.start, sgm.start + Len(probs_a), probs_a)
        probs_b == SubSeq(sgm.probs, split_idx + 2, Len(sgm.probs))
        sgm_b   == Segment(sgm_a.end + 1, sgm.end, probs_b)
    IN  <<trim(sgm_a, thr), trim(sgm_b, thr)>>

\* ------------------------------------------------------- recursive_split
\* the base-case test written with <=
BaseCase_inclusive(sgm, maxlen) == sgm.duration <= maxlen

\* `if sgm.duration < max_segment_length`
BaseCase(sgm, maxlen) == sgm.duration < maxlen

\* the minimum-length test written with >=
Qualifies_inclusive(sgm, minlen) == sgm.duration >= minlen

\* `sgm_x.duration > min_segment_length`
Qualifies(sgm, minlen) == sgm.duration > minlen

\* sorted_indices[j], given the entries sorted_indices[0..j-1] already read.
\* np.argsort is called with its default kind ("quicksort"), which numpy
\* documents as not stable: the result is ascending in probability, and the
\* order among equal probabilities is whatever the build's sort yields.
NextSorted(p, read) ==
    LET rest == {i \in 0..(Len(p) - 1) : \A k \in 1..Len(read) : read[k] # i}
    IN  {i \in rest : \A i2 \in rest : p[i + 1] <= p[i2 + 1]}

NoSegment == Segment(0, 0, <<>>)

\* a call recursive_split(sgm) that has not run yet
NewFrame(sgm) ==
    [sgm |-> sgm, at |-> "enter", sorted_indices |-> <<>>,
     bound |-> FALSE, sgm_a |-> NoSegment, sgm_b |-> NoSegment]

Top == stack[Len(stack)]
Caller == SubSeq(stack, 1, Len(stack) - 1)
Running == pc = "run" /\ stack # <<>>

\* pdac up to the call recursive_split(sgm)
pdac_call ==
    /\ pc = "start"
    /\ LET sgm == trim(Segment(0, Len(probs) * window_size_samples, probs), threshold)
       IN  stack' = <<NewFrame(sgm)>>
    /\ segments' = <<>>
    /\ pc' = "run"
    /\ UNCHANGED <<params, speech_timestamps, mergeVars, trimVars>>

\* base case: segments.append(sgm)
Accept ==
    /\ Running /\ Top.at = "enter"
    /\ BaseCase(Top.sgm, max_segment_length)
    /\ segments' = Append(segments, Top.sgm)
    /\ stack' = Caller
    /\ UNCHANGED <<params, pc, speech_timestamps, mergeVars, trimVars>>

\* else branch: j = 0; sorted_indices = np.argsort(sgm.probs)
BeginScan ==
    /\ Running /\ Top.at = "enter"
    /\ ~BaseCase(Top.sgm, max_segment_length)
    /\ stack' = Append(Caller, [Top EXCEPT !.at = "loop"])
    /\ UNCHANGED <<params, segments, pc, speech_timestamps, mergeVars, trimVars>>

\* one iteration of `while j < len(sorted_indices)`; j is Len(sorted_indices read)
TrySplit ==
    /\ Running /\ Top.at = "loop"
    /\ Len(Top.sorted_indices) < Len(Top.sgm.probs)
    /\ \E split_idx \in NextSorted(Top.sgm.probs, Top.sorted_indices) :
          LET ab == split_and_trim(Top.sgm, split_idx, threshold)
              f  == [Top EXCEPT !.sorted_indices = Append(@, split_idx),
                                !.bound = TRUE, !.sgm_a = ab[1], !.sgm_b = ab[2]]
          IN  IF Qualifies(ab[1], min_segment_length) /\ Qualifies(ab[2], min_segment_length)
              THEN stack' = Caller \o <<[f EXCEPT !.at = "afterA"], NewFrame(ab[1])>>
              ELSE stack' = Append(Caller, f)
    /\ UNCHANGED <<params, segments, pc, speech_timestamps, mergeVars, trimVars>>

\* recursive_split(sgm_a) returned in the accepted branch: recursive_split(sgm_b); break
CallB ==
    /\ Running /\ Top.at = "afterA"
    /\ stack' = Caller \o <<[Top EXCEPT !.at = "ret"], NewFrame(Top.sgm_b)>>
    /\ UNCHANGED <<params, segments, pc, speech_timestamps, mergeVars, trimVars>>

\* the else clause emitting the parent it could not split
LoopElse_keepParent ==
    /\ Running /\ Top.at = "loop"
    /\ Len(Top.sorted_indices) >= Len(Top.sgm.probs)
    /\ segments' = Append(segments, Top.sgm)
    /\ stack' = Caller
    /\ UNCHANGED <<params, pc, speech_timestamps, mergeVars, trimVars>>

\* the while loop's else clause, first statement: `if sgm_a.duration > min_segment_length`
\* (sgm_a is unbound, and the read raises, if the loop body never ran)
LoopElse ==
    /\ Running /\ Top.at = "loop"
    /\ Len(Top.sorted_indices) >= Len(Top.sgm.probs)
    /\ IF ~Top.bound
       THEN pc' = "raised" /\ stack' = stack
       ELSE /\ pc' = pc
            /\ IF Qualifies(Top.sgm_a, min_segment_length)
               THEN stack' = Caller \o <<[Top EXCEPT !.at = "elseB"], NewFrame(Top.sgm_a)>>
               ELSE stack' = Append(Caller, [Top EXCEPT !.at = "elseB"])
    /\ UNCHANGED <<params, segments, speech_timestamps, mergeVars, trimVars>>

\* the else clause, second statement: `if sgm_b.duration > min_segment_length`
ElseB ==
    /\ Running /\ Top.at = "elseB"
    /\ IF Qualifies(Top.sgm_b, min_segment_length)
       THEN stack' = Caller \o <<[Top EXCEPT !.at = "ret"], NewFrame(Top.sgm_b)>>
       ELSE stack' = Append(Caller, [Top EXCEPT !.at = "ret"])
    /\ UNCHANGED <<params, segments, pc, speech_timestamps, mergeVars, trimVars>>

\* end of recursive_split's body
Return ==
    /\ Running /\ Top.at = "ret"
    /\ stack' = Caller
    /\ UNCHANGED <<params, segments, pc, speech_timestamps, mergeVars, trimVars>>

\* `return segments`, then get_speech_timestamps' list comprehension
RECURSIVE Pairs(_)
Pairs(segs) ==
    IF segs = <<>> THEN <<>>
    ELSE <<<<Head(segs).start, Head(segs).end>>>> \o Pairs(Tail(segs))

pdac_return ==
    /\ pc = "run" /\ stack = <<>>
    /\ pc' = "done"
    /\ speech_timestamps' = Pairs(segments)
    /\ UNCHANGED <<params, segments, stack, mergeVars, trimVars>>

\* ------------------------------------------------------------ inputs
\* the probability sequences of at most MaxLen windows
ProbSeqs == UNION {[1..n -> ProbGrid] : n \in 0..MaxLen}

\* the variables of segment_long_input and of the stand-alone trim, unused by pdac
MergeIdle ==
    /\ max_segment_length_samples = 0
    /\ pause_length_samples = 0
    /\ merged = <<>>
    /\ current_segment = <<>>
    /\ next_idx = 0

TrimIdle ==
    /\ trim_sgm = NoSegment
    /\ trimmed = <<>>

Init ==
    /\ MergeIdle /\ TrimIdle
    /\ probs \in ProbSeqs \cup {ScenarioProbs}
    /\ threshold \in Thresholds
    /\ max_segment_length \in 1..MaxSegLen
    /\ min_segment_length \in (-1)..MaxMinLen
    /\ window_size_samples \in 1..MaxWindow
    /\ segments = <<>>
    /\ stack = <<>>
    /\ pc = "start"
    /\ speech_timestamps = <<>>

Next ==
    \/ pdac_call
    \/ Accept
    \/ BeginScan
    \/ TrySplit
    \/ CallB
    \/ LoopElse
    \/ ElseB
    \/ Return
    \/ pdac_return

Spec == Init /\ [][Next]_vars

\* pdac runs in one thread, which always takes its next step
SpecFair == Spec /\ WF_vars(Next)

\* ------------------------------------------- segment_long_input, merge loop
\* the variables of pdac, unused by the merge loop and by the stand-alone trim
PdacIdle ==
    /\ probs = <<>>
    /\ max_segment_length = 1
    /\ min_segment_length = 0
    /\ window_size_samples = 1
    /\ segments = <<>>
    /\ stack = <<>>

pdacVars == <<probs, max_segment_length, min_segment_length,
              window_size_samples, segments, stack>>

\* the length test written with >=
ClosesChunk_inclusive(cur, start_samples, end_samples, maxlen, pause) ==
    \/ end_samples - cur[1] >= maxlen
    \/ start_samples - cur[2] > pause

\* the condition of `if current_segment and (... or ...)`, current_segment non-empty
ClosesChunk(cur, start_samples, end_samples, maxlen, pause) ==
    \/ end_samples - cur[1] > maxlen
    \/ start_samples - cur[2] > pause

\* one iteration of `for segment in speech_timestamps`
merge_step ==
    /\ pc = "merge"
    /\ next_idx < Len(speech_timestamps)
    /\ LET segment       == speech_timestamps[next_idx + 1]
           start_samples == segment[1]
           end_samples   == segment[2]
           close == /\ current_segment # <<>>
                    /\ ClosesChunk(current_segment, start_samples, end_samples,
                                   max_segment_length_samples, pause_length_samples)
           cur   == IF close THEN <<>> ELSE current_segment
       IN  /\ merged' = IF close THEN Append(merged, current_segment) ELSE merged
           /\ current_segment' = IF cur = <<>>
                                 THEN <<start_samples, end_samples>>
                                 ELSE [cur EXCEPT ![2] = end_samples]
    /\ next_idx' = next_idx + 1
    /\ UNCHANGED <<pdacVars, threshold, pc, speech_timestamps,
                   max_segment_length_samples, pause_length_samples, trimVars>>

\* after the loop: `if current_segment: segments.append(current_segment)`; return
merge_return ==
    /\ pc = "merge"
    /\ next_idx >= Len(speech_timestamps)
    /\ merged' = IF current_segment # <<>> THEN Append(merged, current_segment) ELSE merged
    /\ pc' = "merged"
    /\ UNCHANGED <<pdacVars, threshold, speech_timestamps, max_segment_length_samples,
                   pause_length_samples, current_segment, next_idx, trimVars>>

\* ordered interval lists: each start <= end, each interval at or after the one before
LastEnd(l) == IF l = <<>> THEN 0 ELSE l[Len(l)][2]

ExtendLists(Ls) ==
    UNION { {Append(l, q) : q \in {r \in (0..MaxCoord) \X (0..MaxCoord) :
                                        LastEnd(l) <= r[1] /\ r[1] <= r[2]}} : l \in Ls }

RECURSIVE IntervalLists(_)
IntervalLists(n) == IF n = 0 THEN {<<>>} ELSE ExtendLists(IntervalLists(n - 1))

ValidIntervalLists == UNION {IntervalLists(n) : n \in 0..MaxIntervals}

\* the scenario of the specification's section 8.8
ScenarioIntervals == <<<<0, 2>>, <<3, 4>>, <<20, 22>>>>

InitMerge ==
    /\ PdacIdle /\ TrimIdle
    /\ threshold = 5
    /\ pc = "merge"
    /\ merged = <<>>
    /\ current_segment = <<>>
    /\ next_idx = 0
    /\ \/ /\ speech_timestamps \in ValidIntervalLists
          /\ max_segment_length_samples \in 1..MaxChunk
          /\ pause_length_samples \in 0..MaxPause
       \/ /\ speech_timestamps = ScenarioIntervals
          /\ max_segment_length_samples = 10
          /\ pause_length_samples = 2

NextMerge ==
    \/ merge_step
    \/ merge_return

SpecMerge == InitMerge /\ [][NextMerge]_vars

\* ------------------------------------------------------- trim on its own
\* trim applied to any Segment, and then to its own result
trim_call ==
    /\ pc = "trim"
    /\ Len(trimmed) < MaxTrims
    /\ LET arg == IF trimmed = <<>> THEN trim_sgm ELSE trimmed[Len(trimmed)]
       IN  trimmed' = Append(trimmed, trim(arg, threshold))
    /\ UNCHANGED <<pdacVars, threshold, pc, speech_timestamps, mergeVars, trim_sgm>>

InitTrim ==
    /\ PdacIdle /\ MergeIdle
    /\ speech_timestamps = <<>>
    /\ pc = "trim"
    /\ threshold \in Thresholds
    /\ trim_sgm \in {Segment(start, end, p) :
                      start \in 0..MaxStart, end \in 0..(MaxStart + MaxLen), p \in ProbSeqs}
    /\ trimmed = <<>>

NextTrim == trim_call

SpecTrim == InitTrim /\ [][NextTrim]_vars

\* =============================================================== properties
\* ------------------------------------------------ shared by the pdac claims
\* the Segment pdac hands to the first call of recursive_split
TrimmedInput ==
    trim(Segment(0, Len(probs) * window_size_samples, probs), threshold)

AllSilence == \A k \in 1..Len(probs) : probs[k] < threshold

\* every Segment the state holds: the arguments of the active calls, the halves
\* they have bound, and the output list
LiveSegments ==
    {stack[i].sgm : i \in 1..Len(stack)}
    \cup {stack[i].sgm_a : i \in {k \in 1..Len(stack) : stack[k].bound}}
    \cup {stack[i].sgm_b : i \in {k \in 1..Len(stack) : stack[k].bound}}
    \cup {segments[i] : i \in 1..Len(segments)}

\* C1: when every probability is below the threshold, pdac returns an empty
\* list and get_speech_timestamps returns no pair (no zero-duration segment).
\* Stated for audio of at least one window.
C1_AllSilenceEmpty ==
    (pc = "done" /\ probs # <<>> /\ AllSilence) =>
        (segments = <<>> /\ speech_timestamps = <<>>)

\* C2: every Segment pdac creates through trim and split_and_trim spans
\* len(probs) * window_size_samples samples.
C2_SampleDomain ==
    \A s \in LiveSegments : s.end - s.start = Len(s.probs) * window_size_samples

\* C3: the output list is sorted by ascending start and consecutive output
\* segments do not overlap (s.end <= t.start), at every point of the run and in
\* the pairs get_speech_timestamps returns.
C3_SortedNonOverlapping ==
    /\ \A i \in 1..(Len(segments) - 1) :
          /\ segments[i].start <= segments[i + 1].start
          /\ segments[i].end <= segments[i + 1].start
    /\ \A i \in 1..(Len(speech_timestamps) - 1) :
          /\ speech_timestamps[i][1] <= speech_timestamps[i + 1][1]
          /\ speech_timestamps[i][2] <= speech_timestamps[i + 1][1]

C3_Witness ==
    /\ pc = "done"
    /\ Len(speech_timestamps) >= 3
    /\ speech_timestamps[1][2] < speech_timestamps[2][1]

\* C4: every output segment's duration is strictly less than
\* max_segment_length. (The code needs no exception: only the base case
\* appends, so the residual segment the specification allows never occurs.)
C4_MaxLengthBound ==
    \A i \in 1..Len(segments) :
        segments[i].end - segments[i].start < max_segment_length

C4_Witness ==
    /\ pc = "done"
    /\ TrimmedInput.end - TrimmedInput.start >= max_segment_length
    /\ Len(segments) >= 2

\* C5: every segment handed to a recursive call made after a split_and_trim,
\* and so every output segment that results from one, is longer than
\* min_segment_length; an output segment of duration <= min_segment_length can
\* only be the trimmed whole input accepted directly by the first call.
C5_MinLengthFloor ==
    /\ \A i \in 2..Len(stack) :
          stack[i].sgm.end - stack[i].sgm.start > min_segment_length
    /\ \A i \in 1..Len(segments) :
          \/ segments[i].end - segments[i].start > min_segment_length
          \/ /\ segments = <<TrimmedInput>>
             /\ TrimmedInput.end - TrimmedInput.start < max_segment_length

C5_Witness ==
    /\ pc = "done"
    /\ min_segment_length >= 1
    /\ TrimmedInput.end - TrimmedInput.start >= max_segment_length
    /\ Len(segments) >= 2
    /\ \E i \in 1..Len(segments) :
          segments[i].end - segments[i].start = min_segment_length + 1

\* ------------------------------------------------------------------ C7
\* index a comes before index b in a stable ascending sort of p
StableBefore(p, a, b) ==
    p[a + 1] < p[b + 1] \/ (p[a + 1] = p[b + 1] /\ a < b)

BothExceedMin(s, split_idx) ==
    LET ab == split_and_trim(s, split_idx, threshold)
    IN  /\ ab[1].end - ab[1].start > min_segment_length
        /\ ab[2].end - ab[2].start > min_segment_length

\* candidates are tried in ascending probability, ties in index order
C7_TriedInStableOrder ==
    \A i \in 1..Len(stack) :
        \A k, l \in 1..Len(stack[i].sorted_indices) :
            k < l => StableBefore(stack[i].sgm.probs,
                                  stack[i].sorted_indices[k], stack[i].sorted_indices[l])

\* the split taken is the first tried candidate whose halves both exceed
\* min_segment_length, and the scan stops there
C7_FirstQualifyingTaken ==
    \A i \in 1..Len(stack) :
        LET f == stack[i]
            n == Len(f.sorted_indices)
        IN  /\ \A k \in 1..(n - 1) : ~BothExceedMin(f.sgm, f.sorted_indices[k])
            /\ f.at = "afterA" =>
                   /\ BothExceedMin(f.sgm, f.sorted_indices[n])
                   /\ f.sgm_a = split_and_trim(f.sgm, f.sorted_indices[n], threshold)[1]
                   /\ f.sgm_b = split_and_trim(f.sgm, f.sorted_indices[n], threshold)[2]
            /\ (f.at \in {"loop", "elseB"} /\ n > 0) =>
                   ~BothExceedMin(f.sgm, f.sorted_indices[n])

IsScenario ==
    /\ probs = ScenarioProbs
    /\ window_size_samples = 1
    /\ threshold = 5
    /\ max_segment_length = 3
    /\ min_segment_length = 1

C7_Scenario ==
    (IsScenario /\ pc = "done") => speech_timestamps = << <<0, 2>>, <<4, 6>> >>

\* C7: candidates are tried in ascending order of probability, ties in index
\* order; the split taken is the first candidate whose two trimmed halves both
\* exceed min_segment_length, after which no later candidate is tried; the
\* scenario [0.9,0.9,0.1,0.1,0.9,0.9] yields exactly (0,2) and (4,6).
C7_SplitSelection ==
    /\ C7_TriedInStableOrder
    /\ C7_FirstQualifyingTaken
    /\ C7_Scenario

\* ------------------------------------------------------------------ C9
Exhausted(f) == f.at = "loop" /\ Len(f.sorted_indices) >= Len(f.sgm.probs)

\* the step the else clause's first statement takes from an exhausted scan
C9_ElseStepA ==
    (Running /\ Exhausted(Top)) =>
        LET f    == Top
            n    == Len(stack)
        IN  /\ Len(f.sorted_indices) > 0
            /\ LET last == f.sorted_indices[Len(f.sorted_indices)]
                   ab   == split_and_trim(f.sgm, last, threshold)
               IN  /\ \A k \in 1..Len(f.sgm.probs) : f.sgm.probs[k] <= f.sgm.probs[last + 1]
                   /\ ~BothExceedMin(f.sgm, last)
                   /\ segments' = segments
                   /\ pc' = "run"
                   /\ stack'[n] = [f EXCEPT !.at = "elseB"]
                   /\ stack'[n].sgm_a = ab[1] /\ stack'[n].sgm_b = ab[2]
                   /\ IF ab[1].end - ab[1].start > min_segment_length
                      THEN Len(stack') = n + 1 /\ stack'[n + 1] = NewFrame(ab[1])
                      ELSE Len(stack') = n

\* the step the else clause's second statement takes
C9_ElseStepB ==
    (Running /\ Top.at = "elseB") =>
        LET f    == Top
            n    == Len(stack)
            last == f.sorted_indices[Len(f.sorted_indices)]
            ab   == split_and_trim(f.sgm, last, threshold)
        IN  /\ segments' = segments
            /\ stack'[n] = [f EXCEPT !.at = "ret"]
            /\ IF ab[2].end - ab[2].start > min_segment_length
               THEN Len(stack') = n + 1 /\ stack'[n + 1] = NewFrame(ab[2])
               ELSE Len(stack') = n

\* a segment being split (its call is past the base-case test) is not in the output
C9_ParentNotEmitted ==
    \A i \in 1..Len(stack) :
        stack[i].at # "enter" =>
            /\ stack[i].sgm.end - stack[i].sgm.start >= max_segment_length
            /\ \A k \in 1..Len(segments) : segments[k] # stack[i].sgm

\* C9: when no candidate yields two halves that both exceed
\* min_segment_length, recursive_split takes the split_and_trim result of the
\* last candidate tried (an index of highest probability), recurses into each
\* half longer than min_segment_length, drops each half that is not, and never
\* emits the unsplit parent.
C9_FallbackPolicy ==
    /\ []C9_ParentNotEmitted
    /\ [][C9_ElseStepA /\ C9_ElseStepB]_vars

\* a fallback that recursed into its left half and will drop its right half
C9_Witness ==
    /\ Running
    /\ Len(stack) >= 2
    /\ stack[Len(stack) - 1].at = "elseB"
    /\ stack[Len(stack) - 1].sgm_b.duration <= min_segment_length
    /\ stack[Len(stack) - 1].sgm_b.duration > 0

\* ------------------------------------------------------------------ C10
\* the depth of a call: how many calls of recursive_split made by
\* recursive_split itself enclose it (pdac's own call has depth 0)
RecursionDepth == Len(stack) - 1

C10_Safe ==
    /\ pc # "raised"
    /\ \A i \in 1..Len(stack) : Exhausted(stack[i]) => stack[i].bound
    /\ \A i \in 1..(Len(stack) - 1) :
          Len(stack[i + 1].sgm.probs) < Len(stack[i].sgm.probs)
    /\ stack # <<>> => RecursionDepth <= Len(probs)

\* A bound on the steps a call with m probabilities can still take, and the
\* steps the whole run has left: a measure in the naturals.
CallBound(m) == 3 * (m + 1) * (m + 1)

FrameStepsLeft(f) ==
    LET m == Len(f.sgm.probs)
        n == Len(f.sorted_indices)
    IN  CASE f.at = "enter"  -> CallBound(m)
          [] f.at = "loop"   -> (m - n) + 3 + 3 * (m * m + 1)
          [] f.at = "afterA" -> 2 + CallBound(Len(f.sgm_b.probs))
          [] f.at = "elseB"  -> 2 + CallBound(Len(f.sgm_b.probs))
          [] f.at = "ret"    -> 1

RECURSIVE StackStepsLeft(_)
StackStepsLeft(st) ==
    IF st = <<>> THEN 0 ELSE FrameStepsLeft(Head(st)) + StackStepsLeft(Tail(st))

StepsLeft ==
    CASE pc = "start" -> CallBound(Len(probs)) + 2
      [] pc = "run"   -> 1 + StackStepsLeft(stack)
      [] OTHER        -> 0

\* some statement of pdac can run: the guards of the actions of Next
CanStep ==
    \/ pc = "start"
    \/ pc = "run" /\ stack = <<>>
    \/ /\ Running
       /\ \/ Top.at \in {"enter", "afterA", "elseB", "ret"}
          \/ /\ Top.at = "loop"
             /\ \/ Len(Top.sorted_indices) >= Len(Top.sgm.probs)
                \/ NextSorted(Top.sgm.probs, Top.sorted_indices) # {}

\* C10: pdac terminates and returns without raising: every segment passed to
\* a recursive call has a strictly shorter probs slice than its parent, the
\* recursion depth is at most len(probs), the else clause never runs with
\* sgm_a / sgm_b unbound, the run is never stuck short of the return, and every
\* step lowers a measure in the naturals, so that no run is infinite.
C10_Terminates ==
    /\ []C10_Safe
    /\ [](pc # "done" => CanStep)
    /\ [][StepsLeft' < StepsLeft /\ StepsLeft' >= 0]_vars

\* CanStep is the enabling condition of Next
C10_CanStepIsEnabled == CanStep <=> ENABLED Next

\* the same, as the run of the single thread reaching the return
C10_EventuallyDone == <>(pc = "done")

\* the else clause running three calls deep
C10_Witness ==
    /\ Running
    /\ Len(stack) >= 3
    /\ Exhausted(Top)
    /\ Top.bound

\* ------------------------------------------------------------------ C6
\* the intervals the loop has consumed
Consumed == SubSeq(speech_timestamps, 1, next_idx)

\* the chunks built so far, the open one last
ChunksSoFar ==
    IF pc = "merged" \/ current_segment = <<>> THEN merged
    ELSE Append(merged, current_segment)

\* A way of cutting the consumed intervals into runs of consecutive intervals
\* is the set C of the positions (2 and up) at which a new run starts.
RunStarts(C) == IF next_idx = 0 THEN {} ELSE {1} \cup C
RunStartOf(C, i) == SetMax({s \in RunStarts(C) : s <= i})
RunEnd(C, s) ==
    IF \E t \in RunStarts(C) : t > s
    THEN SetMin({t \in RunStarts(C) : t > s}) - 1
    ELSE next_idx
NthRunStart(C, k) ==
    CHOOSE s \in RunStarts(C) : Cardinality({t \in RunStarts(C) : t < s}) = k - 1
RunChunks(C) ==
    [k \in 1..Cardinality(RunStarts(C)) |->
        <<Consumed[NthRunStart(C, k)][1], Consumed[RunEnd(C, NthRunStart(C, k))][2]>>]

\* interval k joins the run of interval k - 1 exactly when both limits are kept
JoinsExactlyWhenWithinLimits(C) ==
    \A k \in 2..next_idx :
        (k \notin C) <=>
            /\ Consumed[k][2] - Consumed[RunStartOf(C, k - 1)][1] <= max_segment_length_samples
            /\ Consumed[k][1] - Consumed[k - 1][2] <= pause_length_samples

\* a run of two or more intervals is no longer than the maximum and has no
\* internal gap above the pause length
MergedRunsWithinLimits(C) ==
    \A s \in RunStarts(C) :
        LET e == RunEnd(C, s)
        IN  e > s =>
              /\ Consumed[e][2] - Consumed[s][1] <= max_segment_length_samples
              /\ \A k \in (s + 1)..e :
                    Consumed[k][1] - Consumed[k - 1][2] <= pause_length_samples

IsMergeScenario ==
    /\ speech_timestamps = ScenarioIntervals
    /\ pause_length_samples = 2
    /\ max_segment_length_samples = 10

\* C6: the chunks are the runs of consecutive input intervals, in input order
\* (so every interval lies in exactly one chunk), in which an interval joins the
\* current chunk exactly when interval.end - chunk.start <= max and
\* interval.start - chunk.end <= pause; every chunk of two or more intervals
\* keeps both limits; [(0,2),(3,4),(20,22)] with pause 2 and max 10 gives
\* [(0,4),(20,22)].
C6_ChunkMerging ==
    /\ \E C \in SUBSET (2..next_idx) :
          /\ JoinsExactlyWhenWithinLimits(C)
          /\ ChunksSoFar = RunChunks(C)
          /\ MergedRunsWithinLimits(C)
    /\ (IsMergeScenario /\ pc = "merged") => merged = << <<0, 4>>, <<20, 22>> >>

C6_Witness ==
    /\ IsMergeScenario
    /\ pc = "merged"
    /\ merged = << <<0, 4>>, <<20, 22>> >>

\* ------------------------------------------------------------------ C8
SameSegment(s, t) ==
    s.start = t.start /\ s.end = t.end /\ s.probs = t.probs

\* C8: trimming the result of a trim again, with the same threshold, returns
\* a segment with the same start, end and probs; when no probability reaches
\* the threshold that segment is the empty one anchored at the input's start.
C8_TrimIdempotent ==
    /\ \A k \in 2..Len(trimmed) : SameSegment(trimmed[k], trimmed[k - 1])
    /\ (\A i \in 1..Len(trim_sgm.probs) : trim_sgm.probs[i] < threshold) =>
          \A k \in 1..Len(trimmed) :
              /\ trimmed[k].start = trim_sgm.start
              /\ trimmed[k].end = trim_sgm.start
              /\ trimmed[k].probs = <<>>

\* a trim that cut the segment down to a non-empty part, applied twice
C8_Witness ==
    /\ Len(trimmed) >= 2
    /\ Len(trimmed[1].probs) > 0
    /\ Len(trimmed[1].probs) < Len(trim_sgm.probs)
====
